---- MODULE Spec2Model ----
(***************************************************************************)
(* Ghighi Quotes (src/app.py): an append-only quote log behind a storage   *)
(* interface, the schema normaliser ensure_columns, the views main()       *)
(* derives for a selected event, and the submission form.                  *)
(*                                                                         *)
(* Encoding of Python values                                               *)
(*   A cell of a DataFrame / a value of a row dict is a record             *)
(*   [k, s, n]:                                                            *)
(*     k = "str"    a Python str, s its characters (a sequence of          *)
(*                  one-character strings)                                 *)
(*     k = "num"    a number n.  quote cells count hundredths (2.10 is     *)
(*                  210), implied_probability cells count millionths       *)
(*     k = "nan"    NaN / missing                                          *)
(*     k = "iso"    the str _now_utc_iso() returns for instant n           *)
(*     k = "day"    the str _today_utc_date_str() returns for day n        *)
(*     k = "numstr" a str whose characters are the numeral of n            *)
(*   A field of a CSV line is a record of the same shape with              *)
(*     k = "txt" (characters s), "numeral" (n), "iso", "day".              *)
(***************************************************************************)
EXTENDS Integers, Sequences, FiniteSets, TLC

\* ------------------------------------------------------------ bounds
MaxRows == 2          \* rows appended to the local file in one behaviour
MaxClock == 1         \* ticks of the UTC clock in one behaviour
MaxViewRows == 3      \* lines of the file the views are derived from
MaxRawRows == 2       \* rows of the table handed to ensure_columns

DATA_COLUMNS ==
    <<"timestamp_utc", "date", "player", "event", "quote", "implied_probability">>

Sessions == {1, 2}

Range(f) == {f[i] : i \in DOMAIN f}

\* ------------------------------------------------------------ values
NaN == [k |-> "nan", s |-> <<>>, n |-> 0]
Str(chars) == [k |-> "str", s |-> chars, n |-> 0]
Num(x) == [k |-> "num", s |-> <<>>, n |-> x]
Iso(t) == [k |-> "iso", s |-> <<>>, n |-> t]
Day(d) == [k |-> "day", s |-> <<>>, n |-> d]
NumStr(x) == [k |-> "numstr", s |-> <<>>, n |-> x]
Txt(chars) == [k |-> "txt", s |-> chars, n |-> 0]
Numeral(x) == [k |-> "numeral", s |-> <<>>, n |-> x]

Whitespace == {" "}

\* str.strip(): drop leading and trailing whitespace characters
RECURSIVE lstrip(_)
lstrip(chars) ==
    IF chars # <<>> /\ Head(chars) \in Whitespace THEN lstrip(Tail(chars)) ELSE chars

RECURSIVE rstrip(_)
rstrip(chars) ==
    IF chars # <<>> /\ chars[Len(chars)] \in Whitespace
    THEN rstrip(SubSeq(chars, 1, Len(chars) - 1))
    ELSE chars

strip(chars) == rstrip(lstrip(chars))

\* round(), to the nearest multiple, ties to even; x >= 0, d > 0
round_half_even(x, d) ==
    LET q == x \div d
        r == x % d
    IN  IF 2 * r < d THEN q
        ELSE IF 2 * r > d THEN q + 1
        ELSE IF q % 2 = 0 THEN q ELSE q + 1

\* ------------------------------------------------------------ clock
\* datetime.now(timezone.utc): the instant is the tick counter, two ticks a day
now_utc_iso(t) == Iso(t)
today_utc_date_str(t) == Day(t \div 2)

\* ------------------------------------------------------------ CSV
\* pandas' default na_values: a field with one of these texts is read as NaN
NA_VALUES ==
    { <<>>,
      <<"N", "A">>, <<"N", "/", "A">>, <<"n", "/", "a">>, <<"#", "N", "/", "A">>,
      <<"#", "N", "A">>, <<"<", "N", "A", ">">>, <<"N", "U", "L", "L">>,
      <<"n", "u", "l", "l">>, <<"N", "a", "N">>, <<"n", "a", "n">>,
      <<"-", "N", "a", "N">>, <<"-", "n", "a", "n">>, <<"N", "o", "n", "e">> }

\* DataFrame.to_csv: one field; strings verbatim, numbers as numerals, NaN as ""
to_csv_field(c) ==
    CASE c.k = "str" -> Txt(c.s)
      [] c.k = "num" -> Numeral(c.n)
      [] c.k = "numstr" -> Numeral(c.n)
      [] c.k = "nan" -> Txt(<<>>)
      [] OTHER -> c

to_csv_line(row) == [c \in Range(DATA_COLUMNS) |-> to_csv_field(row[c])]

is_na(t) == t.k = "txt" /\ t.s \in NA_VALUES

\* read_csv infers a numeric dtype for a column whose non-missing fields are
\* all numerals; any other column keeps its fields as str
column_numeric(lines, col) ==
    \A i \in DOMAIN lines : is_na(lines[i][col]) \/ lines[i][col].k = "numeral"

read_csv_field(lines, col, i) ==
    LET t == lines[i][col]
    IN  IF is_na(t) THEN NaN
        ELSE IF t.k = "numeral"
             THEN (IF column_numeric(lines, col) THEN Num(t.n) ELSE NumStr(t.n))
        ELSE IF t.k = "txt" THEN Str(t.s)
        ELSE t

\* a table is [columns, rows]: the column labels in order and one function
\* from label to cell per row
LocalCSVStorage_read(lines) ==
    [columns |-> DATA_COLUMNS,
     rows |-> [i \in DOMAIN lines |->
                 [c \in Range(DATA_COLUMNS) |-> read_csv_field(lines, c, i)]]]

\* the file after append(row): the line is added at the end of the file as it
\* is when the write happens (open(path, "a"))
LocalCSVStorage_append(lines, row) == Append(lines, to_csv_line(row))

\* ------------------------------------------------------------ normaliser
\* (mutant) an absent column is filled with NaN
ensure_columns_fillna(df) ==
    LET have == Range(df.columns)
    IN  [columns |-> DATA_COLUMNS,
         rows |-> [i \in DOMAIN df.rows |->
                     [c \in Range(DATA_COLUMNS) |->
                        IF c \in have THEN df.rows[i][c] ELSE NaN]]]

ensure_columns(df) ==
    LET have == Range(df.columns)
    IN  [columns |-> DATA_COLUMNS,
         rows |-> [i \in DOMAIN df.rows |->
                     [c \in Range(DATA_COLUMNS) |->
                        IF c \in have THEN df.rows[i][c] ELSE Str(<<>>)]]]

EmptyTable == [columns |-> DATA_COLUMNS, rows |-> <<>>]

\* ------------------------------------------------------------ form
\* what a user can type in the two text inputs
EventInputs == { <<>>, <<"y">>, <<" ", " ">> }
PlayerInputs == { <<>>, <<"a">>, <<" ", "a">>, <<" ", " ">> }
\* values of the number input, in millionths; min_value = 1e-6 is 1
QuoteInputs == { 1, 500000, 2104000 }
\* the inputs of the two-user specification: one event, each user types a name
ConcurrentEventInputs == { <<"x">> }
ConcurrentPlayerInputs == [s \in {1, 2} |-> IF s = 1 THEN { <<"a">> } ELSE { <<"b">> }]

\* sorted([e for e in data[col].dropna().unique() if str(e).strip()])
options(df, col) ==
    { df.rows[i][col].s : i \in { j \in DOMAIN df.rows :
                                    /\ df.rows[j][col].k = "str"
                                    /\ strip(df.rows[j][col].s) # <<>> } }

\* quote_value = round(float(quote_value), 2), in hundredths
quote_round(x) == round_half_even(x, 10000)

\* implied_probability = 1 / quote_value if quote_value else 0.0, as a fraction
implied_probability_of(qc) ==
    IF qc # 0 THEN [num |-> 100, den |-> qc] ELSE [num |-> 0, den |-> 1]

\* round(implied_probability, 6), in millionths
round6(p) == round_half_even(p.num * 1000000, p.den)

\* (mutant) the player name is not checked
validate_event_only(event_name, player_name) ==
    IF event_name = <<>> THEN "no_event" ELSE "ok"

\* the two checks made when the button is pressed
validate(event_name, player_name) ==
    IF event_name = <<>> THEN "no_event"
    ELSE IF player_name = <<>> THEN "no_player"
    ELSE "ok"

make_row(t, event_name, player_name, qc, p) ==
    [timestamp_utc |-> now_utc_iso(t),
     date |-> today_utc_date_str(t),
     player |-> Str(strip(player_name)),
     event |-> Str(strip(event_name)),
     quote |-> Num(qc),
     implied_probability |-> Num(round6(p))]

NoRow == [c \in Range(DATA_COLUMNS) |-> NaN]
NoForm == [event_name |-> <<>>, player_name |-> <<>>, quote_value |-> 0,
           implied_probability |-> [num |-> 0, den |-> 1]]

\* ------------------------------------------------------------ views
NaT == [k |-> "nat", s |-> <<>>, n |-> 0]
Time(t) == [k |-> "time", s |-> <<>>, n |-> t]

\* pd.to_datetime(column, errors="coerce"): what does not parse becomes NaT
to_datetime(c) ==
    IF c.k \in {"iso", "day", "num", "numstr"} THEN Time(c.n)
    ELSE IF c.k = "time" THEN c
    ELSE NaT

isna(c) == c.k \in {"nan", "nat"}

Injective(f) == \A i, j \in DOMAIN f : f[i] = f[j] => i = j

\* sort_values(ascending=...): whether a row with key a may stand before a row
\* with key b; NaT sorts last
may_precede(a, b, ascending) ==
    \/ isna(b)
    \/ /\ ~isna(a)
       /\ IF ascending THEN a.n <= b.n ELSE a.n >= b.n

\* the orders a sort of rows with these keys may produce; rows with equal keys
\* may come out in either order (quicksort is not stable)
sort_orders(keys, ascending) ==
    { f \in [DOMAIN keys -> DOMAIN keys] :
        /\ Injective(f)
        /\ \A i, j \in DOMAIN keys :
             i < j => may_precede(keys[f[i]], keys[f[j]], ascending) }

\* lines 130-131: event_data = data[data["event"] == event_name], date parsed
event_data_of(df, event_name) ==
    LET hit == SelectSeq(df.rows, LAMBDA r : r["event"] = Str(event_name))
    IN  [i \in DOMAIN hit |-> [hit[i] EXCEPT !["date"] = to_datetime(@)]]

\* (mutant) only the players seen on two or more dates are charted
chart_data_threshold(ed) ==
    SelectSeq(ed, LAMBDA r :
        /\ ~isna(r["player"]) /\ ~isna(r["date"])
        /\ Cardinality({ q["date"] : q \in { u \in Range(ed) :
                            u["player"] = r["player"] /\ ~isna(u["date"]) } }) >= 2)

\* lines 136-167: the chart, as the marks it draws (one per row of chart_data)
chart_data_of(ed) ==
    SelectSeq(ed, LAMBDA r : ~isna(r["player"]) /\ ~isna(r["date"]))

chart_of(ed) ==
    LET cd == chart_data_of(ed)
    IN  IF cd = <<>>
        THEN [kind |-> "message", marks |-> {}]
        ELSE [kind |-> "chart",
              marks |-> { [player |-> r["player"], date |-> r["date"],
                           quote |-> r["quote"]] : r \in Range(cd) }]

\* lines 173-175: the timestamps parsed
with_timestamps(ed) ==
    [i \in DOMAIN ed |-> [ed[i] EXCEPT !["timestamp_utc"] = to_datetime(@)]]

\* line 177: dropna(subset=["player", "timestamp_utc"])
latest_candidates(ed) ==
    SelectSeq(with_timestamps(ed),
              LAMBDA r : ~isna(r["player"]) /\ ~isna(r["timestamp_utc"]))

\* line 178: the orders sort_values("timestamp_utc") may leave the rows in
timestamp_orders(rows) ==
    sort_orders([i \in DOMAIN rows |-> rows[i]["timestamp_utc"]], TRUE)

\* (mutant) head(1): each player's first row
head_1(rows) ==
    SelectSeq([i \in DOMAIN rows |-> [row |-> rows[i], at |-> i]],
              LAMBDA e : \A j \in DOMAIN rows :
                            rows[j]["player"] = e.row["player"] => j >= e.at)

\* lines 179-180: groupby("player").tail(1) keeps, in the frame's order, each
\* player's last row
tail_1(rows) ==
    SelectSeq([i \in DOMAIN rows |-> [row |-> rows[i], at |-> i]],
              LAMBDA e : \A j \in DOMAIN rows :
                            rows[j]["player"] = e.row["player"] => j <= e.at)

latest_idx_of(rows, order) ==
    LET sorted == [i \in DOMAIN rows |-> rows[order[i]]]
        kept == tail_1(sorted)
    IN  [i \in DOMAIN kept |-> kept[i].row]

\* line 184: sort_values("date", ascending=False); NaT goes last
date_orders(rows) ==
    sort_orders([i \in DOMAIN rows |-> rows[i]["date"]], FALSE)

\* lines 185-189: the three columns formatted for display
strftime(c) == IF isna(c) THEN NaN ELSE Day(c.n)
format_2f(c) == IF c.k = "num" THEN NumStr(c.n) ELSE Str(<<"n", "a", "n">>)
format_2pct(c) ==
    IF c.k = "num" THEN NumStr(round_half_even(c.n, 100)) ELSE Str(<<"n", "a", "n">>)

recent_table_of(latest, order) ==
    [i \in DOMAIN latest |->
       LET r == latest[order[i]]
       IN  [date |-> strftime(r["date"]),
            player |-> r["player"],
            quote |-> format_2f(r["quote"]),
            implied_probability |-> format_2pct(r["implied_probability"])]]

NoView == [rendered |-> FALSE, event_name |-> <<>>,
           chart |-> [kind |-> "absent", marks |-> {}],
           table |-> [kind |-> "absent", latest_idx |-> <<>>, rows |-> <<>>]]

\* the lines of a file that was also edited outside the program: event x with
\* a junk timestamp or date and an empty player, and a later line of event y
ViewTimes ==
    { [timestamp_utc |-> Iso(1), date |-> Day(1)],
      [timestamp_utc |-> Iso(2), date |-> Day(2)],
      [timestamp_utc |-> Txt(<<"?">>), date |-> Day(2)],
      [timestamp_utc |-> Iso(3), date |-> Txt(<<"?">>)] }

view_line(t, p, e) ==
    [timestamp_utc |-> t.timestamp_utc, date |-> t.date,
     player |-> Txt(p), event |-> Txt(e),
     quote |-> Numeral(210), implied_probability |-> Numeral(476190)]

ViewLines ==
    { view_line(t, p, <<"x">>) : t \in ViewTimes, p \in { <<>>, <<"a">>, <<"b">> } }
    \cup { view_line([timestamp_utc |-> Iso(4), date |-> Day(3)], <<"a">>, <<"y">>) }

RECURSIVE SeqsUpTo(_, _)
SeqsUpTo(S, n) ==
    IF n = 0 THEN { <<>> }
    ELSE LET shorter == SeqsUpTo(S, n - 1)
         IN  shorter \cup { Append(q, x) : q \in { r \in shorter : Len(r) = n - 1 }, x \in S }

ViewEventInputs == { <<>>, <<"z">> }

\* ------------------------------------------------------------ raw tables
RawColumns == DATA_COLUMNS \o <<"extra">>

Reverse(q) == [i \in DOMAIN q |-> q[Len(q) + 1 - i]]

Index(q, x) == CHOOSE i \in DOMAIN q : q[i] = x

\* a table with the columns cols and n rows; every cell holds a different number
raw_table(cols, n) ==
    [columns |-> cols,
     rows |-> [i \in 1..n |-> [c \in Range(cols) |-> Num(10 * i + Index(RawColumns, c))]]]

RawTables ==
    { raw_table(cols, n) :
        cols \in UNION { { SelectSeq(RawColumns, LAMBDA c : c \in S),
                           Reverse(SelectSeq(RawColumns, LAMBDA c : c \in S)) } :
                         S \in SUBSET Range(RawColumns) },
        n \in 0..MaxRawRows }

\* ------------------------------------------------------------ store construction
Configs ==
    [secrets : {"unreadable", "no_doc_id", "doc_id"},
     credentials_raw : {"absent", "bad_json", "json", "mapping"},
     gspread_available : BOOLEAN,
     credentials_valid : BOOLEAN,
     doc_reachable : BOOLEAN,
     csv_exists : BOOLEAN]

NoConfig == [secrets |-> "unreadable", credentials_raw |-> "absent",
             gspread_available |-> FALSE, credentials_valid |-> FALSE,
             doc_reachable |-> FALSE, csv_exists |-> FALSE]

Errors == {"JSONDecodeError", "RuntimeError", "ValueError", "SpreadsheetNotFound"}

\* GoogleSheetStorage.__init__: the object, or the exception it raises
GoogleSheetStorage_init(c) ==
    IF ~c.gspread_available THEN "RuntimeError"
    ELSE IF ~c.credentials_valid THEN "ValueError"
    ELSE IF ~c.doc_reachable THEN "SpreadsheetNotFound"
    ELSE "remote"

\* (mutant) a remote store that cannot be built is replaced by the local one
get_storage_fallback(c) ==
    IF c.secrets = "doc_id"
       /\ c.credentials_raw \notin {"absent", "bad_json"}
       /\ GoogleSheetStorage_init(c) = "remote"
    THEN "remote"
    ELSE "local"

\* get_storage(): the store it returns, or the exception that leaves it
get_storage(c) ==
    LET has_secrets == c.secrets = "doc_id"
    IN  IF has_secrets
        THEN IF c.credentials_raw \in {"absent", "bad_json"}
             THEN "JSONDecodeError"
             ELSE GoogleSheetStorage_init(c)
        ELSE "local"

VARIABLES
    file,       \* the data lines of data/quotes.csv, after its header line
    now,        \* the UTC clock
    pc,         \* per session: where its run of main() is
    data,       \* per session: data = ensure_columns(storage.read())
    form,       \* per session: the values the form held when the button was pressed
    pending,    \* per session: the row handed to storage.append
    log,        \* every call of storage.append so far, in call order
    view,       \* per session: the selected event and the two views drawn for it
    raw,        \* a table as a backend returned it
    norm,       \* ensure_columns(raw), once computed
    config,     \* what store construction finds: secrets, libraries, network, disk
    storage,    \* what get_storage() returned or raised
    csv_exists  \* whether data/quotes.csv exists

storeVars == <<file, now, pc, data, form, pending, log>>
normVars == <<raw, norm>>
configVars == <<config, storage, csv_exists>>
vars == <<file, now, pc, data, form, pending, log, view, raw, norm, config, storage, csv_exists>>

\* the file was just created by LocalCSVStorage.__init__: its header and no line
NoTable == [columns |-> <<>>, rows |-> <<>>]

StoreStart ==
    /\ now = 0
    /\ pc = [s \in Sessions |-> "start"]
    /\ data = [s \in Sessions |-> EmptyTable]
    /\ form = [s \in Sessions |-> NoForm]
    /\ pending = [s \in Sessions |-> NoRow]
    /\ log = <<>>
    /\ view = [s \in Sessions |-> NoView]

NormIdle == raw = NoTable /\ norm = NoTable
ConfigIdle == config = NoConfig /\ storage = "unset" /\ csv_exists = TRUE

Init ==
    /\ file = <<>>
    /\ NormIdle
    /\ ConfigIdle
    /\ StoreStart

Tick ==
    /\ now < MaxClock
    /\ now' = now + 1
    /\ UNCHANGED <<file, pc, data, form, pending, log, view, normVars, configVars>>

\* main(), lines 109-110: storage = get_storage(); data = ensure_columns(storage.read())
Load(s) ==
    /\ pc[s] = "start"
    /\ data' = [data EXCEPT ![s] = ensure_columns(LocalCSVStorage_read(file))]
    /\ pc' = [pc EXCEPT ![s] = "loaded"]
    /\ UNCHANGED <<file, now, form, pending, log, view, normVars, configVars>>

\* main(), lines 115-190: the event is selected and the two views are drawn
Render(s, event_name) ==
    /\ pc[s] = "loaded"
    /\ pc' = [pc EXCEPT ![s] = "form"]
    /\ LET ed == event_data_of(data[s], event_name)
           rows == latest_candidates(ed)
       IN  IF event_name = <<>>
           THEN view' = [view EXCEPT ![s] = [NoView EXCEPT !.rendered = TRUE]]
           ELSE \E o1 \in timestamp_orders(rows) :
                  LET latest == latest_idx_of(rows, o1)
                  IN  \E o2 \in date_orders(latest) :
                        view' = [view EXCEPT ![s] =
                                   [rendered |-> TRUE,
                                    event_name |-> event_name,
                                    chart |-> chart_of(ed),
                                    table |-> IF ed = <<>>
                                              THEN [kind |-> "message", latest_idx |-> <<>>,
                                                    rows |-> <<>>]
                                              ELSE [kind |-> "table", latest_idx |-> latest,
                                                    rows |-> recent_table_of(latest, o2)]]]
    /\ UNCHANGED <<file, now, data, form, pending, log, normVars, configVars>>

\* main(), lines 194-235: the player and the quote, the button, the checks and
\* the call of storage.append, up to the opening of the file
Submit(s, player_name, x) ==
    LET event_name == view[s].event_name
        qc == quote_round(x)
        p == implied_probability_of(qc)
        verdict == validate(event_name, player_name)
        row == make_row(now, event_name, player_name, qc, p)
    IN  /\ pc[s] = "form"
        /\ Len(log) < MaxRows
        /\ form' = [form EXCEPT ![s] =
                      [event_name |-> event_name, player_name |-> player_name,
                       quote_value |-> qc, implied_probability |-> p]]
        /\ IF verdict = "ok"
           THEN /\ pending' = [pending EXCEPT ![s] = row]
                /\ log' = Append(log, [session |-> s, row |-> row,
                                       seen |-> Len(data[s].rows),
                                       preview |-> p])
                /\ pc' = [pc EXCEPT ![s] = "appending"]
           ELSE /\ pc' = [pc EXCEPT ![s] = "stopped"]
                /\ UNCHANGED <<pending, log>>
        /\ UNCHANGED <<file, now, data, view, normVars, configVars>>

\* (mutant) append as read-modify-write: the table read earlier is written
\* back with the new row after it
Write_rewrite(s) ==
    /\ pc[s] = "appending"
    /\ file' = Append([i \in DOMAIN data[s].rows |-> to_csv_line(data[s].rows[i])],
                      to_csv_line(pending[s]))
    /\ pc' = [pc EXCEPT ![s] = "start"]
    /\ data' = [data EXCEPT ![s] = EmptyTable]
    /\ form' = [form EXCEPT ![s] = NoForm]
    /\ pending' = [pending EXCEPT ![s] = NoRow]
    /\ view' = [view EXCEPT ![s] = NoView]
    /\ UNCHANGED <<now, log, normVars, configVars>>

\* LocalCSVStorage.append's write, then st.rerun()
Write(s) ==
    /\ pc[s] = "appending"
    /\ file' = LocalCSVStorage_append(file, pending[s])
    /\ pc' = [pc EXCEPT ![s] = "start"]
    /\ data' = [data EXCEPT ![s] = EmptyTable]
    /\ form' = [form EXCEPT ![s] = NoForm]
    /\ pending' = [pending EXCEPT ![s] = NoRow]
    /\ view' = [view EXCEPT ![s] = NoView]
    /\ UNCHANGED <<now, log, normVars, configVars>>

\* the run ended (st.stop(), or the end of main()); the next interaction runs main() again
Rerun(s) ==
    /\ pc[s] \in {"form", "stopped"}
    /\ pc' = [pc EXCEPT ![s] = "start"]
    /\ data' = [data EXCEPT ![s] = EmptyTable]
    /\ form' = [form EXCEPT ![s] = NoForm]
    /\ view' = [view EXCEPT ![s] = NoView]
    /\ UNCHANGED <<file, now, pending, log, normVars, configVars>>

\* one user: every input the form accepts
Next ==
    \/ Tick
    \/ Load(1)
    \/ \E event_name \in options(data[1], "event") \cup EventInputs :
         Render(1, event_name)
    \/ \E player_name \in options(data[1], "player") \cup PlayerInputs :
         \E x \in QuoteInputs : Submit(1, player_name, x)
    \/ Write(1)
    \/ Rerun(1)

Spec == Init /\ [][Next]_vars

\* two users on the same file, each in a process of its own
NextConcurrent ==
    \/ Tick
    \/ \E s \in Sessions : Load(s)
    \/ \E s \in Sessions :
         \E event_name \in options(data[s], "event") \cup ConcurrentEventInputs :
           Render(s, event_name)
    \/ \E s \in Sessions :
         \E player_name \in options(data[s], "player") \cup ConcurrentPlayerInputs[s] :
           Submit(s, player_name, 2104000)
    \/ \E s \in Sessions : Write(s)
    \/ \E s \in Sessions : Rerun(s)

SpecConcurrent == Init /\ [][NextConcurrent]_vars

\* the store alone, driven through its interface with well-formed records
\* (names not empty and trimmed, quote > 0, probability = 1 / quote)
Records ==
    { make_row(t, e, p, qc, implied_probability_of(qc)) :
        t \in 0..MaxClock, e \in { <<"x">>, <<"y">> },
        p \in { <<"a">>, <<"N", "A">> }, qc \in { 150, 210 } }

\* storage.append(row), lines 53-55
StoreAppend(row) ==
    /\ Len(file) < MaxRows
    /\ file' = LocalCSVStorage_append(file, row)
    /\ log' = Append(log, [session |-> 1, row |-> row, seen |-> Len(file),
                           preview |-> implied_probability_of(row["quote"].n)])
    /\ pc' = [pc EXCEPT ![1] = "start"]
    /\ UNCHANGED <<now, data, form, pending, view, normVars, configVars>>

\* storage.read(), lines 50-51
StoreRead ==
    /\ pc[1] = "start"
    /\ data' = [data EXCEPT ![1] = LocalCSVStorage_read(file)]
    /\ pc' = [pc EXCEPT ![1] = "loaded"]
    /\ UNCHANGED <<file, now, form, pending, log, view, normVars, configVars>>

NextStore ==
    \/ \E row \in Records : StoreAppend(row)
    \/ StoreRead

SpecStore == Init /\ [][NextStore]_vars

\* the views of one run of main() over a file of any content
InitViews ==
    /\ file \in SeqsUpTo(ViewLines, MaxViewRows)
    /\ StoreStart
    /\ NormIdle
    /\ ConfigIdle

NextViews ==
    \/ Load(1)
    \/ \E event_name \in options(data[1], "event") \cup ViewEventInputs :
         Render(1, event_name)

SpecViews == InitViews /\ [][NextViews]_vars

\* ensure_columns applied to a table of any shape
Normalize ==
    /\ norm = NoTable
    /\ norm' = ensure_columns(raw)
    /\ UNCHANGED <<storeVars, view, raw, configVars>>

InitNormalize ==
    /\ file = <<>>
    /\ StoreStart
    /\ raw \in RawTables
    /\ norm = NoTable
    /\ ConfigIdle

SpecNormalize == InitNormalize /\ [][Normalize]_vars

\* main(), line 109: storage = get_storage(); LocalCSVStorage.__init__ creates
\* the file when it does not exist
GetStorage ==
    /\ storage = "unset"
    /\ storage' = get_storage(config)
    /\ csv_exists' = (csv_exists \/ storage' = "local")
    /\ UNCHANGED <<storeVars, view, normVars, config>>

InitGetStorage ==
    /\ file = <<>>
    /\ StoreStart
    /\ NormIdle
    /\ config \in Configs
    /\ storage = "unset"
    /\ csv_exists = config.csv_exists

SpecGetStorage == InitGetStorage /\ [][GetStorage]_vars

\* ------------------------------------------------------------ properties
Count(q, x) == Cardinality({ i \in DOMAIN q : q[i] = x })

appended_rows == [i \in DOMAIN log |-> log[i].row]

\* C1: after any sequence of appends to the fresh file, read returns exactly
\* the appended records, one row per append, in the order they were appended
C1_ReadReturnsAppended ==
    pc[1] = "loaded" => data[1].rows = appended_rows

\* C2: a submission whose event name or player name is empty is rejected: the
\* run stops, storage.append is not called and the stored log is unchanged
C2_EmptyNameRejected ==
    [][\A s \in Sessions :
         ( /\ pc[s] = "form"
           /\ pc'[s] \in {"stopped", "appending"}
           /\ (form'[s].event_name = <<>> \/ form'[s].player_name = <<>>) )
         => ( /\ pc'[s] = "stopped"
              /\ log' = log
              /\ pending' = pending
              /\ file' = file )]_vars

C2_Witness ==
    /\ pc[1] = "stopped"
    /\ form[1].event_name # <<>>
    /\ form[1].player_name = <<>>
    /\ Len(file) >= 1
    /\ Len(log) = Len(file)

\* 1 / quote for a quote in hundredths; not defined (den = 0) for quote 0
one_over(qc) == [num |-> 100, den |-> qc]

\* C3: every record written has implied_probability = round(1 / quote, 6) for
\* its stored quote, and the preview is that same 1 / quote
C3_StoredProbabilityIsReciprocal ==
    \A i \in DOMAIN log :
      LET p == one_over(log[i].row["quote"].n)
      IN  /\ p.den # 0
          /\ log[i].row["implied_probability"].n = round6(p)
          /\ log[i].preview = p

\* the event-matching records with a player and a timestamp that parses
snapshot_matches ==
    { i \in DOMAIN data[1].rows :
        /\ data[1].rows[i]["event"] = Str(view[1].event_name)
        /\ data[1].rows[i]["player"].k # "nan"
        /\ to_datetime(data[1].rows[i]["timestamp_utc"]).k = "time" }

\* C4: the latest-per-player snapshot of the selected event holds exactly one
\* row per player with an event-matching record that has a player and a
\* parsable timestamp; the row is such a record of that player with the
\* greatest timestamp; no record of another event appears
C4_LatestPerPlayer ==
    (view[1].rendered /\ view[1].event_name # <<>>) =>
      LET rows == data[1].rows
          latest == view[1].table.latest_idx
          players == { rows[i]["player"] : i \in snapshot_matches }
      IN  /\ { latest[i]["player"] : i \in DOMAIN latest } = players
          /\ Len(latest) = Cardinality(players)
          /\ Len(view[1].table.rows) = Cardinality(players)
          /\ { view[1].table.rows[i].player : i \in DOMAIN view[1].table.rows } = players
          /\ \A i \in DOMAIN latest :
               /\ latest[i]["event"] = Str(view[1].event_name)
               /\ \E j \in snapshot_matches :
                    /\ rows[j]["player"] = latest[i]["player"]
                    /\ to_datetime(rows[j]["timestamp_utc"]) = latest[i]["timestamp_utc"]
                    /\ to_datetime(rows[j]["date"]) = latest[i]["date"]
                    /\ rows[j]["quote"] = latest[i]["quote"]
               /\ \A j \in snapshot_matches :
                    rows[j]["player"] = latest[i]["player"]
                    => to_datetime(rows[j]["timestamp_utc"]).n <= latest[i]["timestamp_utc"].n

C4_Witness ==
    /\ view[1].rendered
    /\ Len(view[1].table.latest_idx) >= 1
    /\ \E i, j \in snapshot_matches :
         /\ data[1].rows[i]["player"] = data[1].rows[j]["player"]
         /\ data[1].rows[i]["timestamp_utc"] # data[1].rows[j]["timestamp_utc"]
         /\ \E k \in DOMAIN data[1].rows :
              /\ data[1].rows[k]["event"] # Str(view[1].event_name)
              /\ data[1].rows[k]["player"] = data[1].rows[i]["player"]

\* the event-matching records with a player and a date that parses
chart_matches ==
    { i \in DOMAIN data[1].rows :
        /\ data[1].rows[i]["event"] = Str(view[1].event_name)
        /\ data[1].rows[i]["player"].k # "nan"
        /\ to_datetime(data[1].rows[i]["date"]).k = "time" }

distinct_dates(p) ==
    Cardinality({ data[1].rows[i]["date"] :
                    i \in { j \in chart_matches : data[1].rows[j]["player"] = p } })

chart_players == { m.player : m \in view[1].chart.marks }

C6_EnsureColumns ==
    norm # NoTable =>
      /\ norm.columns = DATA_COLUMNS
      /\ Len(norm.rows) = Len(raw.rows)
      /\ \A i \in DOMAIN norm.rows :
           /\ DOMAIN norm.rows[i] = Range(DATA_COLUMNS)
           /\ \A c \in Range(DATA_COLUMNS) :
                norm.rows[i][c] = (IF c \in Range(raw.columns)
                                   THEN raw.rows[i][c] ELSE Str(<<>>))

C6_Witness ==
    /\ norm # NoTable
    /\ Len(raw.rows) = 2
    /\ "event" \notin Range(raw.columns)
    /\ "extra" \in Range(raw.columns)
    /\ Len(raw.columns) >= 2
    /\ raw.columns[1] = "extra"

remote_fails(c) ==
    \/ c.credentials_raw \in {"absent", "bad_json"}
    \/ ~c.gspread_available
    \/ ~c.credentials_valid
    \/ ~c.doc_reachable

\* C7: the remote backend is chosen exactly when the document id is in the
\* secrets and the local one otherwise; once it is chosen every failure leaves
\* get_storage as an error, and no local store is returned or created
C7_NoFallback ==
    storage # "unset" =>
      /\ (storage = "local") <=> (config.secrets # "doc_id")
      /\ config.secrets = "doc_id" =>
           /\ (storage = "remote") <=> ~remote_fails(config)
           /\ remote_fails(config) => (storage \in Errors /\ csv_exists = config.csv_exists)

C7_Witness ==
    /\ storage \in Errors
    /\ config.secrets = "doc_id"
    /\ ~csv_exists

\* C8: every record written has quote > 0 and implied_probability in (0, 1]
C8_QuoteAndProbabilityRanges ==
    \A i \in DOMAIN log :
      /\ log[i].row["quote"].n > 0
      /\ log[i].row["implied_probability"].n > 0
      /\ log[i].row["implied_probability"].n <= 1000000

\* C9: every record written has a player and an event that are not empty and
\* have no leading or trailing whitespace
C9_NamesTrimmedNonEmpty ==
    \A i \in DOMAIN log :
      /\ log[i].row["player"].s # <<>>
      /\ log[i].row["event"].s # <<>>
      /\ strip(log[i].row["player"].s) = log[i].row["player"].s
      /\ strip(log[i].row["event"].s) = log[i].row["event"].s

\* the calls of append whose write has not happened yet
in_flight(i) ==
    /\ pc[log[i].session] = "appending"
    /\ \A j \in DOMAIN log : log[j].session = log[i].session => j <= i

written_lines ==
    LET done == SelectSeq([i \in DOMAIN log |-> [at |-> i, row |-> log[i].row]],
                          LAMBDA e : ~in_flight(e.at))
    IN  [i \in DOMAIN done |-> to_csv_line(done[i].row)]

\* C10: whatever the interleaving of two sessions' reads and appends, the file
\* holds the line of every append that has written, each as many times as it
\* was appended, and nothing else: no row is lost or overwritten
C10_NoLostAppend ==
    /\ Len(file) = Len(written_lines)
    /\ \A l \in Range(file) \cup Range(written_lines) :
         Count(file, l) = Count(written_lines, l)

C10_Witness ==
    /\ Len(log) = 2
    /\ log[1].session # log[2].session
    /\ log[1].seen = 0
    /\ log[2].seen = 0
    /\ \A s \in Sessions : pc[s] # "appending"
    /\ Len(file) = 2

====
